---------------------------- MODULE Spec2Model ----------------------------
(***************************************************************************)
(* Flask Daily Kanban (src/app.py): the day-rollover and archival state    *)
(* machine.  The state is the SQLite store (the Setting rows               *)
(* 'last_active_date' and 'columns', the Task table), the process clock    *)
(* (date.today()) and the response of the latest request.  One action per  *)
(* route; every route runs check_rollover_and_archive() first.             *)
(***************************************************************************)
EXTENDS Integers, Sequences, FiniteSets, TLC

\* The clock ranges over the days FirstDay .. FirstDay + MaxDay.
MaxDay == 2
\* The Task table holds ids 1 .. MaxTasks.
MaxTasks == 1

-----------------------------------------------------------------------------
(* datetime.date: proleptic Gregorian ordinals, isoformat, fromisoformat.  *)

IsLeap(y) == (y % 4 = 0) /\ ((y % 100 # 0) \/ (y % 400 = 0))

DAYS_IN_MONTH == <<31, 28, 31, 30, 31, 30, 31, 31, 30, 31, 30, 31>>

DaysInMonth(y, m) == IF m = 2 /\ IsLeap(y) THEN 29 ELSE DAYS_IN_MONTH[m]

DaysBeforeYear(y) ==
    LET p == y - 1 IN p * 365 + (p \div 4) - (p \div 100) + (p \div 400)

DAYS_BEFORE_MONTH == <<0, 31, 59, 90, 120, 151, 181, 212, 243, 273, 304, 334>>

DaysBeforeMonth(y, m) ==
    DAYS_BEFORE_MONTH[m] + (IF m > 2 /\ IsLeap(y) THEN 1 ELSE 0)

\* date(y, m, d).toordinal()
ymd2ord(y, m, d) == DaysBeforeYear(y) + DaysBeforeMonth(y, m) + d

\* date.fromordinal(n) as <<year, month, day>>
ord2ymd(n) ==
    LET n0   == n - 1
        n400 == n0 \div 146097
        r400 == n0 % 146097
        n100 == r400 \div 36524
        r100 == r400 % 36524
        n4   == r100 \div 1461
        r4   == r100 % 1461
        n1   == r4 \div 365
        r1   == r4 % 365
        year == n400 * 400 + 1 + n100 * 100 + n4 * 4 + n1
    IN  IF n1 = 4 \/ n100 = 4
        THEN <<year - 1, 12, 31>>
        ELSE LET guess == (r1 + 50) \div 32
                 month == IF DaysBeforeMonth(year, guess) > r1
                          THEN guess - 1 ELSE guess
             IN  <<year, month, r1 - DaysBeforeMonth(year, month) + 1>>

\* _isoweek1monday(year): the ordinal of the Monday of ISO week 1
isoweek1monday(year) ==
    LET firstday     == ymd2ord(year, 1, 1)
        firstweekday == (firstday + 6) % 7
        week1monday  == firstday - firstweekday
    IN  IF firstweekday > 3 THEN week1monday + 7 ELSE week1monday

\* date.isocalendar()[0:2] as <<ISO year, ISO week>>
isocalendar(n) ==
    LET year == ord2ymd(n)[1]
        week == (n - isoweek1monday(year)) \div 7
    IN  IF week < 0
        THEN <<year - 1, ((n - isoweek1monday(year - 1)) \div 7) + 1>>
        ELSE IF week >= 52 /\ n >= isoweek1monday(year + 1)
        THEN <<year + 1, 1>>
        ELSE <<year, week + 1>>

\* The first day of the modelled window, 2024-12-29; the window crosses a
\* month, a year and an ISO-week boundary.
FirstDay == ymd2ord(2024, 12, 29)

Days == FirstDay .. (FirstDay + MaxDay)

(* Setting.value is a string column (nullable).  A value is one of: no row *)
(* or NULL (Setting.get gives None), a text that is not of the form        *)
(* YYYY-MM-DD, or a text YYYY-MM-DD with its three numbers.                *)
NoValue == [kind |-> "none", y |-> 0, m |-> 0, d |-> 0]

NotADate == [kind |-> "text", y |-> 0, m |-> 0, d |-> 0]

IsoStr(y, m, d) == [kind |-> "iso", y |-> y, m |-> m, d |-> d]

\* Python truthiness of a Setting value: `if not last`
Truthy(s) == s.kind # "none"

\* date.isoformat()
isoformat(n) == LET t == ord2ymd(n) IN IsoStr(t[1], t[2], t[3])

\* date.fromisoformat(s): the date's ordinal, or ValueError (ok = FALSE)
fromisoformat(s) ==
    IF /\ s.kind = "iso"
       /\ s.y \in 1..9999
       /\ s.m \in 1..12
       /\ s.d >= 1
       /\ s.d <= DaysInMonth(s.y, s.m)
    THEN [ok |-> TRUE, value |-> ymd2ord(s.y, s.m, s.d)]
    ELSE [ok |-> FALSE, value |-> 0]

-----------------------------------------------------------------------------
(* Strings that may hold commas are sequences of comma-free pieces:        *)
(* "A,B" is <<"A", "B">> and "" is <<"">>; so ','.join and split(',') are  *)
(* concatenation and the identity on pieces.                               *)

\* str.strip(): " " stands for a piece of white space only
Strip(name) ==
    [i \in 1..Len(name) |->
        IF name[i] = " " /\ (i = 1 \/ i = Len(name)) THEN "" ELSE name[i]]

RECURSIVE Join(_)
\* ','.join(names)
Join(names) ==
    IF Len(names) = 0 THEN <<"">>
    ELSE IF Len(names) = 1 THEN names[1]
    ELSE names[1] \o Join(Tail(names))

\* the names of a submitted form that are not blank, stripped
RECURSIVE StripNonBlank(_)
StripNonBlank(names) ==
    IF Len(names) = 0 THEN <<>>
    ELSE IF Strip(names[1]) = <<"">> THEN StripNonBlank(Tail(names))
    ELSE <<Strip(names[1])>> \o StripNonBlank(Tail(names))

\* cols[:5]
FirstFive(names) == SubSeq(names, 1, IF Len(names) < 5 THEN Len(names) ELSE 5)

default_cols ==
    << <<"Backlog">>, <<"To Do">>, <<"In Progress">>, <<"Review">>, <<"Done">> >>

-----------------------------------------------------------------------------
VARIABLES
    today,             \* date.today(), an ordinal
    last_active_date,  \* Setting 'last_active_date', a Setting value
    columns,           \* Setting 'columns', a string as pieces
    tasks,             \* the Task table: id -> row
    resp,              \* the response of the request just served, if any
    page,              \* what the archive page just served lists, if any
    pc,                \* per worker: where it is in the request it serves
    loc                \* per worker: the local variables of that request

vars == <<today, last_active_date, columns, tasks, resp, page, pc, loc>>

\* archived_at of a task that is not archived (NULL)
NullTime == 0

TaskIds == 1..MaxTasks

\* the ids a request may name: those of the table and one never assigned
RequestIds == 1..(MaxTasks + 1)

\* the archived column defaulting to True
NewTaskArchived(title, description, col, now) ==
    [title |-> title, description |-> description, column_index |-> col,
     created_at |-> now, task_date |-> now,
     archived |-> TRUE, archived_at |-> NullTime]

\* Task(title, description, column_index, task_date): archived defaults to
\* False, created_at to utcnow() (the clock, at day granularity)
NewTask(title, description, col, now) ==
    [title |-> title, description |-> description, column_index |-> col,
     created_at |-> now, task_date |-> now,
     archived |-> FALSE, archived_at |-> NullTime]

\* SQLite's rowid for an INTEGER PRIMARY KEY: one more than the largest in use
NextId(ts) ==
    IF DOMAIN ts = {} THEN 1
    ELSE (CHOOSE i \in DOMAIN ts : \A j \in DOMAIN ts : j <= i) + 1

\* the open tasks of the day carried over to today in place of archived
ArchiveDay_carry_over(ts, day, now) ==
    [id \in DOMAIN ts |->
        IF ts[id].task_date = day /\ ~ts[id].archived
        THEN [ts[id] EXCEPT !.task_date = now]
        ELSE ts[id]]

\* Task.query.filter_by(task_date=day, archived=False), then
\* t.archived = True; t.archived_at = utcnow() on each; commit
ArchiveDay(ts, day, now) ==
    [id \in DOMAIN ts |->
        IF ts[id].task_date = day /\ ~ts[id].archived
        THEN [ts[id] EXCEPT !.archived = TRUE, !.archived_at = now]
        ELSE ts[id]]

RECURSIVE ArchiveDays(_, _, _)
\* while day < today: archive the day; day = day + timedelta(days=1)
ArchiveDays(ts, day, now) ==
    IF day < now THEN ArchiveDays(ArchiveDay(ts, day, now), day + 1, now)
    ELSE ts

\* the sweep started the day after the watermark
check_rollover_from_next_day(ts, last, now) ==
    IF ~Truthy(last)
    THEN [tasks |-> ts, last |-> isoformat(now), branch |-> "init"]
    ELSE LET parsed == fromisoformat(last) IN
         IF ~parsed.ok
         THEN [tasks |-> ts, last |-> isoformat(now), branch |-> "repair"]
         ELSE IF parsed.value >= now
         THEN [tasks |-> ts, last |-> last, branch |-> "noop"]
         ELSE [tasks |-> ArchiveDays(ts, parsed.value + 1, now),
               last |-> isoformat(now), branch |-> "sweep"]

\* the sweep run through today, the next day recorded as the watermark
check_rollover_through_today(ts, last, now) ==
    IF ~Truthy(last)
    THEN [tasks |-> ts, last |-> isoformat(now), branch |-> "init"]
    ELSE LET parsed == fromisoformat(last) IN
         IF ~parsed.ok
         THEN [tasks |-> ts, last |-> isoformat(now), branch |-> "repair"]
         ELSE IF parsed.value > now
         THEN [tasks |-> ts, last |-> last, branch |-> "noop"]
         ELSE [tasks |-> ArchiveDays(ts, parsed.value, now + 1),
               last |-> isoformat(now + 1), branch |-> "sweep"]

\* a clock behind the watermark answered by reopening the days from today on
check_rollover_reopening(ts, last, now) ==
    IF ~Truthy(last)
    THEN [tasks |-> ts, last |-> isoformat(now), branch |-> "init"]
    ELSE LET parsed == fromisoformat(last) IN
         IF ~parsed.ok
         THEN [tasks |-> ts, last |-> isoformat(now), branch |-> "repair"]
         ELSE IF parsed.value = now
         THEN [tasks |-> ts, last |-> last, branch |-> "noop"]
         ELSE IF parsed.value > now
         THEN [tasks |-> [id \in DOMAIN ts |->
                            IF ts[id].task_date >= now
                            THEN [ts[id] EXCEPT !.archived = FALSE,
                                                !.archived_at = NullTime]
                            ELSE ts[id]],
               last |-> isoformat(now), branch |-> "sweep"]
         ELSE [tasks |-> ArchiveDays(ts, parsed.value, now),
               last |-> isoformat(now), branch |-> "sweep"]

\* fromisoformat's ValueError not caught
check_rollover_uncaught(ts, last, now) ==
    IF ~Truthy(last)
    THEN [tasks |-> ts, last |-> isoformat(now), branch |-> "init"]
    ELSE LET parsed == fromisoformat(last) IN
         IF ~parsed.ok
         THEN [tasks |-> ts, last |-> last, branch |-> "raised"]
         ELSE IF parsed.value >= now
         THEN [tasks |-> ts, last |-> last, branch |-> "noop"]
         ELSE [tasks |-> ArchiveDays(ts, parsed.value, now),
               last |-> isoformat(now), branch |-> "sweep"]

\* `if last_date == today: return` in place of `>=`
check_rollover_equal_only(ts, last, now) ==
    IF ~Truthy(last)
    THEN [tasks |-> ts, last |-> isoformat(now), branch |-> "init"]
    ELSE LET parsed == fromisoformat(last) IN
         IF ~parsed.ok
         THEN [tasks |-> ts, last |-> isoformat(now), branch |-> "repair"]
         ELSE IF parsed.value = now
         THEN [tasks |-> ts, last |-> last, branch |-> "noop"]
         ELSE [tasks |-> ArchiveDays(ts, parsed.value, now),
               last |-> isoformat(now), branch |-> "sweep"]

\* check_rollover_and_archive(): the store after it, and the return it took
check_rollover_and_archive(ts, last, now) ==
    IF ~Truthy(last)
    THEN [tasks |-> ts, last |-> isoformat(now), branch |-> "init"]
    ELSE LET parsed == fromisoformat(last) IN
         IF ~parsed.ok
         THEN [tasks |-> ts, last |-> isoformat(now), branch |-> "repair"]
         ELSE IF parsed.value >= now
         THEN [tasks |-> ts, last |-> last, branch |-> "noop"]
         ELSE [tasks |-> ArchiveDays(ts, parsed.value, now),
               last |-> isoformat(now), branch |-> "sweep"]

\* the gate with the archived flag forgotten
EditableByDateOnly(t, now) == t.task_date = now

\* the gate of move_task, edit_task and delete_task, negated:
\* `if t.task_date != date.today() or t.archived: return ..., 400`
Editable(t, now) == ~(t.task_date # now \/ t.archived)

\* An exception that leaves a handler is Flask's 500; nothing was committed.
Raised(ts, last) ==
    [tasks |-> ts, last |-> last, status |-> 500, error |-> "exception",
     catchup |-> "raised"]

\* what a handler returns: the store it leaves and its response
Result(cu, ts, status) ==
    [tasks |-> ts, last |-> cu.last, status |-> status, error |-> "",
     catchup |-> cu.branch]

\* jsonify({'error': ...}), status: "not editable" stands for the messages
\* 'task is archived or not editable', 'not editable' and 'not deletable'
Error(cu, status, error) ==
    [tasks |-> cu.tasks, last |-> cu.last, status |-> status, error |-> error,
     catchup |-> cu.branch]

\* a page served without the rollover
read_only_no_rollover(ts, last, now, status) ==
    [tasks |-> ts, last |-> last, status |-> status, error |-> "",
     catchup |-> "none"]

\* index(), settings(), archive pages: the rollover, then reads only
read_only(ts, last, now, status) ==
    LET cu == check_rollover_and_archive(ts, last, now) IN
    IF cu.branch = "raised" THEN Raised(ts, last)
    ELSE Result(cu, cu.tasks, status)

\* a missing key of the request: data.get(key) is None
Missing == "<None>"

\* data.get(key, default)
Get(value, default) == IF value = Missing THEN default ELSE value

add_task(ts, last, now, title, description, col) ==
    LET cu == check_rollover_and_archive(ts, last, now) IN
    IF cu.branch = "raised" THEN Raised(ts, last)
    ELSE IF title = Missing \/ title = ""
    THEN Error(cu, 400, "title required")
    ELSE LET id == NextId(cu.tasks)
             t  == NewTask(title, Get(description, ""), col, now)
         IN  Result(cu,
                    [i \in DOMAIN cu.tasks \cup {id} |->
                        IF i = id THEN t ELSE cu.tasks[i]],
                    200)

\* the column written before the gate is evaluated
move_task_write_first(ts, last, now, id, new_col) ==
    LET cu == check_rollover_and_archive(ts, last, now) IN
    IF cu.branch = "raised" THEN Raised(ts, last)
    ELSE IF id \notin DOMAIN cu.tasks
    THEN Error(cu, 404, "task not found")
    ELSE LET moved == [cu.tasks EXCEPT ![id].column_index = new_col] IN
         IF ~Editable(cu.tasks[id], now)
         THEN [Error(cu, 400, "not editable") EXCEPT !.tasks = moved]
         ELSE Result(cu, moved, 200)

move_task(ts, last, now, id, new_col) ==
    LET cu == check_rollover_and_archive(ts, last, now) IN
    IF cu.branch = "raised" THEN Raised(ts, last)
    ELSE IF id \notin DOMAIN cu.tasks
    THEN Error(cu, 404, "task not found")
    ELSE IF ~Editable(cu.tasks[id], now)
    THEN Error(cu, 400, "not editable")
    ELSE Result(cu, [cu.tasks EXCEPT ![id].column_index = new_col], 200)

edit_task(ts, last, now, id, title, description) ==
    LET cu == check_rollover_and_archive(ts, last, now) IN
    IF cu.branch = "raised" THEN Raised(ts, last)
    ELSE IF id \notin DOMAIN cu.tasks
    THEN Error(cu, 404, "task not found")
    ELSE IF ~Editable(cu.tasks[id], now)
    THEN Error(cu, 400, "not editable")
    ELSE LET t == cu.tasks[id] IN
         Result(cu,
                [cu.tasks EXCEPT
                    ![id].title = Get(title, t.title),
                    ![id].description = Get(description, t.description)],
                200)

\* delete_task's gate with the archived flag forgotten
delete_task_by_date(ts, last, now, id) ==
    LET cu == check_rollover_and_archive(ts, last, now) IN
    IF cu.branch = "raised" THEN Raised(ts, last)
    ELSE IF id \notin DOMAIN cu.tasks
    THEN Error(cu, 404, "task not found")
    ELSE IF cu.tasks[id].task_date # now
    THEN Error(cu, 400, "not editable")
    ELSE Result(cu, [i \in DOMAIN cu.tasks \ {id} |-> cu.tasks[i]], 200)

\* an unknown id answered {'ok': True}
delete_task_silent(ts, last, now, id) ==
    LET cu == check_rollover_and_archive(ts, last, now) IN
    IF cu.branch = "raised" THEN Raised(ts, last)
    ELSE IF id \notin DOMAIN cu.tasks
    THEN Result(cu, cu.tasks, 200)
    ELSE IF ~Editable(cu.tasks[id], now)
    THEN Error(cu, 400, "not editable")
    ELSE Result(cu, [i \in DOMAIN cu.tasks \ {id} |-> cu.tasks[i]], 200)

delete_task(ts, last, now, id) ==
    LET cu == check_rollover_and_archive(ts, last, now) IN
    IF cu.branch = "raised" THEN Raised(ts, last)
    ELSE IF id \notin DOMAIN cu.tasks
    THEN Error(cu, 404, "task not found")
    ELSE IF ~Editable(cu.tasks[id], now)
    THEN Error(cu, 400, "not editable")
    ELSE Result(cu, [i \in DOMAIN cu.tasks \ {id} |-> cu.tasks[i]], 200)

\* the names index() gives to columns that have none: f'Column {n}'
PadNames == <<"Column 1", "Column 2", "Column 3", "Column 4", "Column 5">>

\* index(): the columns of the board, from the stored string: the non-empty
\* pieces, five at most, padded to five
board_columns(cols_raw) ==
    LET cols == FirstFive(SelectSeq(cols_raw, LAMBDA c : c # ""))
    IN  cols \o SubSeq(PadNames, Len(cols) + 1, 5)

\* settings() POST: the columns it stores
posted_columns(form) == Join(FirstFive(StripNonBlank(form)))

\* an archive page: the tasks it lists, or the dates (archive_index)
NoPage == [tasks |-> {}, dates |-> {}]

\* a segment of the URL path that int() is applied to: digits or not
Seg(n) == [num |-> TRUE, n |-> n]

NotANumber == [num |-> FALSE, n |-> 0]

\* abort(404), the rollover done
Abort(r) == [r |-> [r EXCEPT !.status = 404, !.error = "not found"], page |-> NoPage]

\* the tasks Task.query.filter(Task.archived==True).all() gives
archived_tasks(ts) == {id \in DOMAIN ts : ts[id].archived = TRUE}

archive_index(ts, last, now) ==
    LET r == read_only(ts, last, now, 200) IN
    IF r.status = 500 THEN [r |-> r, page |-> NoPage]
    ELSE [r |-> r,
          page |-> [tasks |-> {},
                    dates |-> {r.tasks[id].task_date : id \in archived_tasks(r.tasks)}]]

\* archive_day(day): Task.query.filter_by(task_date=day_date)
archive_day(ts, last, now, day) ==
    LET r == read_only(ts, last, now, 200)
        day_date == fromisoformat(day)
    IN  IF r.status = 500 THEN [r |-> r, page |-> NoPage]
        ELSE IF ~day_date.ok THEN Abort(r)
        ELSE [r |-> r,
              page |-> [tasks |-> {id \in DOMAIN r.tasks :
                                      r.tasks[id].task_date = day_date.value},
                        dates |-> {}]]

archive_week(ts, last, now, year, week) ==
    LET r == read_only(ts, last, now, 200) IN
    IF r.status = 500 THEN [r |-> r, page |-> NoPage]
    ELSE IF ~year.num \/ ~week.num THEN Abort(r)
    ELSE [r |-> r,
          page |-> [tasks |-> {id \in archived_tasks(r.tasks) :
                                  /\ isocalendar(r.tasks[id].task_date)[1] = year.n
                                  /\ isocalendar(r.tasks[id].task_date)[2] = week.n},
                    dates |-> {}]]

archive_month(ts, last, now, year, month) ==
    LET r == read_only(ts, last, now, 200) IN
    IF r.status = 500 THEN [r |-> r, page |-> NoPage]
    ELSE IF ~year.num \/ ~month.num THEN Abort(r)
    ELSE [r |-> r,
          page |-> [tasks |-> {id \in archived_tasks(r.tasks) :
                                  /\ ord2ymd(r.tasks[id].task_date)[1] = year.n
                                  /\ ord2ymd(r.tasks[id].task_date)[2] = month.n},
                    dates |-> {}]]

archive_year(ts, last, now, year) ==
    LET r == read_only(ts, last, now, 200) IN
    IF r.status = 500 THEN [r |-> r, page |-> NoPage]
    ELSE IF ~year.num THEN Abort(r)
    ELSE [r |-> r,
          page |-> [tasks |-> {id \in archived_tasks(r.tasks) :
                                  ord2ymd(r.tasks[id].task_date)[1] = year.n},
                    dates |-> {}]]

-----------------------------------------------------------------------------
(* Inputs of the requests.                                                 *)

AddTitles == {Missing, "", "a"}

AddDescriptions == {Missing}

\* edit_task's title and description: neither key sent, or both
EditInputs == {<<Missing, Missing>>, <<"", "e">>}

ColumnInputs == {0, 5}

\* the settings form: the default names with a blank field among them and
\* a sixth name after them
FormInputs ==
    { << <<"Backlog">>, <<" ">>, <<"To Do">>, <<"In Progress">>, <<"Review">>,
         <<"Done">>, <<"Extra">> >> }

\* what the watermark is after the database file was damaged outside the
\* program: the row lost, overwritten with text, or with an impossible date
DamagedValues == {NoValue, NotADate, IsoStr(2025, 2, 29)}

\* /archive/day/<day>: the days of the window, and a text that is no date
DayInputs == {isoformat(d) : d \in Days} \cup {NotADate}

\* /archive/week/<year>/<week>: the ISO weeks of the window, and a malformed
\* path
WeekInputs == {<<Seg(2024), Seg(52)>>, <<Seg(2025), Seg(1)>>, <<Seg(2025), NotANumber>>}

\* /archive/month/<year>/<month>
MonthInputs == {<<Seg(2024), Seg(12)>>, <<Seg(2025), Seg(1)>>, <<NotANumber, Seg(1)>>}

\* /archive/year/<year>
YearInputs == {Seg(2024), Seg(2025), NotANumber}

-----------------------------------------------------------------------------
\* the workers that serve requests step by step
Workers == {1, 2}

\* the local variables of a worker that serves no request.  op, id, col:
\* the request; last_date, now (the rollover's `today`), day, sel (the
\* rollover's `tasks`): check_rollover_and_archive's locals; branch: the
\* return it took.  Two fields record the run for the statements about it:
\* visited, the days the loop body has run for, and start, the Task table
\* when the rollover began.
NoLocals ==
    [op |-> "none", id |-> 0, col |-> 0, branch |-> "none", last_date |-> 0,
     now |-> 0, day |-> 0, sel |-> {}, visited |-> <<>>, start |-> <<>>]

\* the requests served step by step: the index page, and move_task
StepInputs ==
    {<<"index", 0, 0>>} \cup
    {<<"move", id, col>> : id \in TaskIds, col \in ColumnInputs \ {0}}

NoResponse == [status |-> 0, error |-> "", catchup |-> "none"]

\* init_db() on a new database, at any day of the window
Init ==
    /\ today \in Days
    /\ last_active_date = isoformat(today)
    /\ columns = Join(default_cols)
    /\ tasks = <<>>
    /\ resp = NoResponse
    /\ page = NoPage
    /\ pc = [w \in Workers |-> "idle"]
    /\ loc = [w \in Workers |-> NoLocals]

Respond(r) ==
    /\ tasks' = r.tasks
    /\ last_active_date' = r.last
    /\ resp' = [status |-> r.status, error |-> r.error, catchup |-> r.catchup]
    /\ page' = NoPage
    /\ UNCHANGED <<today, pc, loc>>

\* the clock passes midnight
Tick ==
    /\ today < FirstDay + MaxDay
    /\ today' = today + 1
    /\ resp' = NoResponse
    /\ page' = NoPage
    /\ UNCHANGED <<last_active_date, columns, tasks, pc, loc>>

\* the clock is set back a day
ClockBack ==
    /\ today > FirstDay
    /\ today' = today - 1
    /\ resp' = NoResponse
    /\ page' = NoPage
    /\ UNCHANGED <<last_active_date, columns, tasks, pc, loc>>

\* the 'last_active_date' row is lost or damaged in the database file
Damage(v) ==
    /\ last_active_date' = v
    /\ resp' = NoResponse
    /\ page' = NoPage
    /\ UNCHANGED <<today, columns, tasks, pc, loc>>

Index ==
    /\ Respond(read_only(tasks, last_active_date, today, 200))
    /\ UNCHANGED columns

AddTask(title, description, col) ==
    /\ NextId(tasks) \in TaskIds
    /\ Respond(add_task(tasks, last_active_date, today, title, description, col))
    /\ UNCHANGED columns

MoveTask(id, col) ==
    /\ Respond(move_task(tasks, last_active_date, today, id, col))
    /\ UNCHANGED columns

EditTask(id, title, description) ==
    /\ Respond(edit_task(tasks, last_active_date, today, id, title, description))
    /\ UNCHANGED columns

DeleteTask(id) ==
    /\ Respond(delete_task(tasks, last_active_date, today, id))
    /\ UNCHANGED columns

SettingsGet ==
    /\ Respond(read_only(tasks, last_active_date, today, 200))
    /\ UNCHANGED columns

SettingsPost(form) ==
    LET r == read_only(tasks, last_active_date, today, 302) IN
    /\ Respond(r)
    /\ columns' = IF r.status = 500 THEN columns ELSE posted_columns(form)

Request ==
    \/ Index
    \/ \E title \in AddTitles, description \in AddDescriptions,
          col \in ColumnInputs : AddTask(title, description, col)
    \/ \E id \in RequestIds, col \in ColumnInputs : MoveTask(id, col)
    \/ \E id \in RequestIds, e \in EditInputs : EditTask(id, e[1], e[2])
    \/ \E id \in RequestIds : DeleteTask(id)
    \/ SettingsGet
    \/ \E form \in FormInputs : SettingsPost(form)

Next ==
    \/ Tick
    \/ ClockBack
    \/ \E v \in DamagedValues : Damage(v)
    \/ Request

Spec == Init /\ [][Next]_vars

\* the steps of a run whose clock never goes back
NextForward ==
    \/ Tick
    \/ \E v \in DamagedValues : Damage(v)
    \/ Request

SpecForward == Init /\ [][NextForward]_vars

-----------------------------------------------------------------------------
(* The archive pages.                                                      *)

\* an archive page is served: the store its rollover leaves, its listing
RespondPage(a) ==
    /\ tasks' = a.r.tasks
    /\ last_active_date' = a.r.last
    /\ resp' = [status |-> a.r.status, error |-> a.r.error, catchup |-> a.r.catchup]
    /\ page' = a.page
    /\ UNCHANGED <<today, columns, pc, loc>>

ArchiveIndex == RespondPage(archive_index(tasks, last_active_date, today))

ArchiveDayPage(day) == RespondPage(archive_day(tasks, last_active_date, today, day))

ArchiveWeek(year, week) ==
    RespondPage(archive_week(tasks, last_active_date, today, year, week))

ArchiveMonth(year, month) ==
    RespondPage(archive_month(tasks, last_active_date, today, year, month))

ArchiveYear(year) == RespondPage(archive_year(tasks, last_active_date, today, year))

ArchiveRequest ==
    \/ ArchiveIndex
    \/ \E day \in DayInputs : ArchiveDayPage(day)
    \/ \E yw \in WeekInputs : ArchiveWeek(yw[1], yw[2])
    \/ \E ym \in MonthInputs : ArchiveMonth(ym[1], ym[2])
    \/ \E year \in YearInputs : ArchiveYear(year)

\* every route of the program, under a clock that moves forward
NextPages ==
    \/ Tick
    \/ Request
    \/ ArchiveRequest

SpecPages == Init /\ [][NextPages]_vars

-----------------------------------------------------------------------------
(* A request served statement by statement: each action below is one       *)
(* database round trip of check_rollover_and_archive() or of the handler,  *)
(* so that the process can be killed, or another worker run, between two.  *)

Idle == \A w \in Workers : pc[w] = "idle"

Goto(w, label) == pc' = [pc EXCEPT ![w] = label]

\* the worker answers and forgets its locals
Finish(w, status, error) ==
    /\ Goto(w, "idle")
    /\ loc' = [loc EXCEPT ![w] = NoLocals]
    /\ resp' = [status |-> status, error |-> error, catchup |-> loc[w].branch]
    /\ page' = NoPage

\* a request arrives at worker w
Begin(w, op, id, col) ==
    /\ pc[w] = "idle"
    /\ Goto(w, "rollover")
    /\ loc' = [loc EXCEPT ![w] = [NoLocals EXCEPT !.op = op, !.id = id, !.col = col]]
    /\ resp' = NoResponse
    /\ page' = NoPage
    /\ UNCHANGED <<today, last_active_date, columns, tasks>>

\* the watermark written before the sweep
Rollover_mark_first(w) ==
    /\ pc[w] = "rollover"
    /\ LET parsed == fromisoformat(last_active_date)
           l0 == [loc[w] EXCEPT !.now = today, !.start = tasks]
       IN  IF ~Truthy(last_active_date) \/ ~parsed.ok
           THEN /\ last_active_date' = isoformat(today)
                /\ loc' = [loc EXCEPT ![w] = [l0 EXCEPT !.branch =
                               IF Truthy(last_active_date) THEN "repair" ELSE "init"]]
                /\ Goto(w, "handler")
           ELSE IF parsed.value >= today
           THEN /\ loc' = [loc EXCEPT ![w] = [l0 EXCEPT !.branch = "noop",
                                                       !.last_date = parsed.value]]
                /\ Goto(w, "handler")
                /\ UNCHANGED last_active_date
           ELSE /\ loc' = [loc EXCEPT ![w] = [l0 EXCEPT !.branch = "sweep",
                                                       !.last_date = parsed.value,
                                                       !.day = parsed.value]]
                /\ Goto(w, "select")
                /\ last_active_date' = isoformat(today)
    /\ UNCHANGED <<today, columns, tasks, resp, page>>

\* lines 86-99: the watermark read and tested; absent or unparsable, it is
\* reset at once
Rollover(w) ==
    /\ pc[w] = "rollover"
    /\ LET parsed == fromisoformat(last_active_date)
           l0 == [loc[w] EXCEPT !.now = today, !.start = tasks]
       IN  IF ~Truthy(last_active_date) \/ ~parsed.ok
           THEN /\ last_active_date' = isoformat(today)
                /\ loc' = [loc EXCEPT ![w] = [l0 EXCEPT !.branch =
                               IF Truthy(last_active_date) THEN "repair" ELSE "init"]]
                /\ Goto(w, "handler")
           ELSE IF parsed.value >= today
           THEN /\ loc' = [loc EXCEPT ![w] = [l0 EXCEPT !.branch = "noop",
                                                       !.last_date = parsed.value]]
                /\ Goto(w, "handler")
                /\ UNCHANGED last_active_date
           ELSE /\ loc' = [loc EXCEPT ![w] = [l0 EXCEPT !.branch = "sweep",
                                                       !.last_date = parsed.value,
                                                       !.day = parsed.value]]
                /\ Goto(w, "select")
                /\ UNCHANGED last_active_date
    /\ UNCHANGED <<today, columns, tasks, resp, page>>

\* the loop run through today
Select_through_today(w) ==
    /\ pc[w] = "select"
    /\ IF loc[w].day <= loc[w].now
       THEN /\ loc' = [loc EXCEPT ![w].sel =
                          {id \in DOMAIN tasks :
                              /\ tasks[id].task_date = loc[w].day
                              /\ ~tasks[id].archived}]
            /\ Goto(w, "archive")
       ELSE /\ Goto(w, "mark")
            /\ UNCHANGED loc
    /\ UNCHANGED <<today, last_active_date, columns, tasks, resp, page>>

\* lines 100-101: the loop test, and the query for the day's open tasks
Select(w) ==
    /\ pc[w] = "select"
    /\ IF loc[w].day < loc[w].now
       THEN /\ loc' = [loc EXCEPT ![w].sel =
                          {id \in DOMAIN tasks :
                              /\ tasks[id].task_date = loc[w].day
                              /\ ~tasks[id].archived}]
            /\ Goto(w, "archive")
       ELSE /\ Goto(w, "mark")
            /\ UNCHANGED loc
    /\ UNCHANGED <<today, last_active_date, columns, tasks, resp, page>>

\* lines 102-107: the selected rows written and committed (archived_at is
\* utcnow(), the clock at the write), and the day advanced
Archive(w) ==
    /\ pc[w] = "archive"
    /\ tasks' = [id \in DOMAIN tasks |->
                    IF id \in loc[w].sel
                    THEN [tasks[id] EXCEPT !.archived = TRUE, !.archived_at = today]
                    ELSE tasks[id]]
    /\ loc' = [loc EXCEPT ![w].sel = {},
                          ![w].visited = Append(@, loc[w].day),
                          ![w].day = @ + 1]
    /\ Goto(w, "select")
    /\ UNCHANGED <<today, last_active_date, columns, resp, page>>

\* line 109: the watermark set to the rollover's `today`
Mark(w) ==
    /\ pc[w] = "mark"
    /\ last_active_date' = isoformat(loc[w].now)
    /\ Goto(w, "handler")
    /\ UNCHANGED <<today, columns, tasks, resp, page, loc>>

\* the handler after the rollover: index() renders; move_task (lines
\* 148-152) loads the task and evaluates the gate against date.today()
Handle(w) ==
    /\ pc[w] = "handler"
    /\ IF loc[w].op = "index" THEN Finish(w, 200, "")
       ELSE IF loc[w].id \notin DOMAIN tasks THEN Finish(w, 404, "task not found")
       ELSE IF ~Editable(tasks[loc[w].id], today) THEN Finish(w, 400, "not editable")
       ELSE /\ Goto(w, "write")
            /\ UNCHANGED <<loc, resp, page>>
    /\ UNCHANGED <<today, last_active_date, columns, tasks>>

\* move_task, lines 153-155: the column written and committed
Write(w) ==
    /\ pc[w] = "write"
    /\ tasks' = [tasks EXCEPT ![loc[w].id].column_index = loc[w].col]
    /\ Finish(w, 200, "")
    /\ UNCHANGED <<today, last_active_date, columns>>

\* the process is killed while the worker serves a request: what was
\* committed stays, the rest is lost
Crash(w) ==
    /\ pc[w] # "idle"
    /\ Goto(w, "idle")
    /\ loc' = [loc EXCEPT ![w] = NoLocals]
    /\ resp' = NoResponse
    /\ page' = NoPage
    /\ UNCHANGED <<today, last_active_date, columns, tasks>>

\* a task is created while no request is being served
Create ==
    /\ Idle
    /\ \E col \in ColumnInputs : AddTask("a", Missing, col)

\* the watermark row is lost while no request is being served
Lose ==
    /\ Idle
    /\ Damage(NoValue)

\* one worker, which may be killed
NextSweep ==
    \/ Tick
    \/ Create
    \/ Lose
    \/ \E i \in StepInputs : Begin(1, i[1], i[2], i[3])
    \/ Rollover(1)
    \/ Select(1)
    \/ Archive(1)
    \/ Mark(1)
    \/ Handle(1)
    \/ Write(1)
    \/ Crash(1)

\* the rollover's loop is sequential code: once entered it runs on, unless
\* the process is killed
SpecSweep ==
    /\ Init
    /\ [][NextSweep]_vars
    /\ WF_vars(Select(1) \/ Archive(1) \/ Mark(1))

\* two workers serving requests at the same time (a threaded server)
NextConcurrent ==
    \/ Tick
    \/ Create
    \/ \E w \in Workers :
          \/ \E i \in StepInputs : Begin(w, i[1], i[2], i[3])
          \/ Rollover(w)
          \/ Select(w)
          \/ Archive(w)
          \/ Mark(w)
          \/ Handle(w)
          \/ Write(w)

SpecConcurrent == Init /\ [][NextConcurrent]_vars

-----------------------------------------------------------------------------
(* The claims.                                                             *)

\* the Task table as the request's rollover leaves it, before the gate
AfterCatchUp == check_rollover_and_archive(tasks, last_active_date, today).tasks

\* the editability condition, on the table after the request's rollover
DatedTodayAndOpen(id) ==
    AfterCatchUp[id].task_date = today /\ AfterCatchUp[id].archived = FALSE

\* the response that rejects a request as not editable
NotEditableAnswer == resp.status = 400 /\ resp.error = "not editable"

\* the response that rejects a request for an unknown id
NotFoundAnswer == resp.status = 404 /\ resp.error = "task not found"

\* that a handler's result rejects the request as not editable
Rejected(r) == r.status = 400 /\ r.error = "not editable"

\* C1: move_task, edit_task and delete_task on an existing task take effect
\* if and only if, after the request's rollover, the task is dated today and
\* not archived; otherwise they are rejected with 400, not editable (a task
\* dated today that is archived included).  Stated of the handlers that the
\* actions MoveTask, EditTask and DeleteTask apply, in every reachable state
\* and for every input.
C1_EditableIff ==
    \A id \in DOMAIN tasks :
        /\ \A col \in ColumnInputs :
              LET r == move_task(tasks, last_active_date, today, id, col) IN
              IF DatedTodayAndOpen(id)
              THEN /\ r.status = 200
                   /\ r.tasks[id].column_index = col
              ELSE /\ Rejected(r)
                   /\ r.tasks = AfterCatchUp
        /\ \A e \in EditInputs :
              LET r == edit_task(tasks, last_active_date, today, id, e[1], e[2]) IN
              IF DatedTodayAndOpen(id)
              THEN /\ r.status = 200
                   /\ r.tasks[id].title = Get(e[1], tasks[id].title)
                   /\ r.tasks[id].description = Get(e[2], tasks[id].description)
              ELSE /\ Rejected(r)
                   /\ r.tasks = AfterCatchUp
        /\ LET r == delete_task(tasks, last_active_date, today, id) IN
           IF DatedTodayAndOpen(id)
           THEN r.status = 200 /\ id \notin DOMAIN r.tasks
           ELSE Rejected(r) /\ r.tasks = AfterCatchUp

\* a request was just rejected as not editable although its task is dated
\* today: the task is archived
C1_Witness ==
    /\ NotEditableAnswer
    /\ DOMAIN tasks # {}
    /\ \A id \in DOMAIN tasks : tasks[id].task_date = today /\ tasks[id].archived

\* the watermark as a date, when it is one
Watermark == fromisoformat(last_active_date)

\* the ids of the archived tasks of a table
ArchivedSet(ts) == {id \in DOMAIN ts : ts[id].archived}

\* the tasks present before and after a step
Kept == DOMAIN tasks \cap DOMAIN tasks'

AfterTwo(d1, d2) ==
    LET r1 == check_rollover_and_archive(tasks, last_active_date, d1)
    IN  check_rollover_and_archive(r1.tasks, r1.last, d2)

\* the store after one rollover at the clock value d
AfterOne(d) == check_rollover_and_archive(tasks, last_active_date, d)

\* two rollovers in a row archive what the second alone archives; a longer
\* run of rollovers is this step repeated, every store between two of them
\* being a reachable one
BatchingHolds ==
    \A d2 \in Days :
        LET once == ArchivedSet(AfterOne(d2).tasks) IN
        \A d1 \in FirstDay..d2 : ArchivedSet(AfterTwo(d1, d2).tasks) = once

\* C3, as claimed: from every store state, rollovers at non-decreasing clock
\* values archive the same set of tasks as one rollover at the last value.
C3_Original == BatchingHolds

\* C3, amended: from every store state whose watermark is a date, rollovers
\* at non-decreasing clock values archive the same set of tasks as one
\* rollover at the last value.
C3_Batching == Watermark.ok => BatchingHolds

\* a rollover has run, the watermark is a date, and of two later rollovers
\* each archives a task, or the second does
C3_Witness ==
    /\ resp.catchup \in {"noop", "sweep"}
    /\ Watermark.ok
    /\ \E d1, d2 \in Days :
          /\ today <= d1
          /\ d1 < d2
          /\ AfterOne(d1).branch = "sweep"
          /\ ArchivedSet(AfterTwo(d1, d2).tasks) # ArchivedSet(AfterOne(d1).tasks)

\* every task dated before the watermark is archived
ArchivedBeforeWatermark ==
    Watermark.ok =>
        \A id \in DOMAIN tasks :
            tasks[id].task_date < Watermark.value => tasks[id].archived

\* C4, as claimed: in every reachable state every task dated before the
\* watermark is archived.
C4_Original == ArchivedBeforeWatermark

\* C4, amended: every task dated before the watermark is archived at the
\* start, and every step taken while the watermark is a date not ahead of
\* the clock keeps it so; only a repair of a lost or damaged watermark and
\* a task created while the clock is behind the watermark break it.
C4_ArchivedBeforeWatermark ==
    /\ ArchivedBeforeWatermark
    /\ [][(/\ ArchivedBeforeWatermark
           /\ Watermark.ok
           /\ Watermark.value <= today) => ArchivedBeforeWatermark']_vars

\* the rollover just moved the watermark over the day of a task
C4_Witness ==
    /\ resp.catchup = "sweep"
    /\ Watermark.ok
    /\ \E id \in DOMAIN tasks :
          tasks[id].task_date < Watermark.value /\ tasks[id].archived

\* the watermark, when it is a date, is not after the clock's date
WatermarkNotAhead == Watermark.ok => Watermark.value <= today

\* C5, as claimed: in every reachable state the watermark is not after the
\* current date.
C5_Original == WatermarkNotAhead

\* C5, amended: the watermark is not after the current date at the start,
\* and every step in which the clock does not move backward keeps it so.
C5_WatermarkNotAhead ==
    /\ WatermarkNotAhead
    /\ [][(WatermarkNotAhead /\ today' >= today) => WatermarkNotAhead']_vars

\* the rollover just advanced the watermark to a later current date
C5_Witness ==
    /\ resp.catchup = "sweep"
    /\ last_active_date = isoformat(today)
    /\ today > FirstDay

\* C6: no step changes a task's archived flag from true to false.
C6_ArchivedMonotonic ==
    [][\A id \in Kept : tasks[id].archived => tasks'[id].archived]_vars

\* an archived task stays archived through a request served with the clock
\* set back to the day of the task
C6_Witness ==
    /\ resp.catchup = "noop"
    /\ Watermark.ok
    /\ today < Watermark.value
    /\ \E id \in DOMAIN tasks : tasks[id].archived /\ tasks[id].task_date = today

\* C7: a step in which a task's archived flag changes from false to true is
\* a request whose rollover archived the task; a task that a step creates
\* is not archived and is dated today.
C7_ArchivedOnlyByRollover ==
    [][/\ \A id \in Kept :
             (~tasks[id].archived /\ tasks'[id].archived) =>
                 /\ Request
                 /\ AfterCatchUp[id].archived
                 /\ Watermark.ok
                 /\ Watermark.value <= tasks[id].task_date
                 /\ tasks[id].task_date < today
       /\ \A id \in DOMAIN tasks' \ DOMAIN tasks :
             /\ tasks'[id].archived = FALSE
             /\ tasks'[id].task_date = today
      ]_vars

\* a user action was just refused on a task that the rollover of the same
\* request archived
C7_Witness ==
    /\ resp.catchup = "sweep"
    /\ NotEditableAnswer
    /\ \E id \in DOMAIN tasks : tasks[id].archived /\ tasks[id].archived_at = today

\* C8: when the watermark is not a parsable date, the rollover sets it to
\* the current date, changes no task's archived flag, and raises no error.
C8_CorruptWatermarkRepaired ==
    [][(Truthy(last_active_date) /\ ~Watermark.ok /\ Request) =>
          /\ last_active_date' = isoformat(today)
          /\ resp'.status # 500
          /\ \A id \in Kept :
                /\ tasks'[id].archived = tasks[id].archived
                /\ tasks'[id].archived_at = tasks[id].archived_at
      ]_vars

\* the rollover just repaired the watermark and left a task of an earlier
\* day open
C8_Witness ==
    /\ resp.catchup = "repair"
    /\ last_active_date = isoformat(today)
    /\ \E id \in DOMAIN tasks :
          tasks[id].task_date < today /\ ~tasks[id].archived

\* C9: a rollover with the clock before the watermark changes neither the
\* watermark nor any task's archived flag or archived_at, and raises no
\* error.
C9_ClockBackwardNoOp ==
    [][(Watermark.ok /\ today < Watermark.value /\ Request) =>
          /\ last_active_date' = last_active_date
          /\ resp'.status # 500
          /\ \A id \in Kept :
                /\ tasks'[id].archived = tasks[id].archived
                /\ tasks'[id].archived_at = tasks[id].archived_at
      ]_vars

\* a page was just served with the clock before the watermark, an open and
\* an archived task or either in the table
C9_Witness ==
    /\ resp = [status |-> 200, error |-> "", catchup |-> "noop"]
    /\ Watermark.ok
    /\ today < Watermark.value
    /\ DOMAIN tasks # {}

\* the fields of a task that the rollover does not write
UserFields(t) ==
    <<t.title, t.description, t.column_index, t.created_at, t.task_date>>

\* C10: move_task, edit_task and delete_task with an id that is not in the
\* table answer 404 (task not found) and leave the set of tasks and their
\* fields as they were, but for the archiving of the request's rollover.
C10_NotFound ==
    [][\A id \in RequestIds \ DOMAIN tasks :
          ( /\ resp'.status # 0
            /\ \/ \E col \in ColumnInputs : MoveTask(id, col)
               \/ \E e \in EditInputs : EditTask(id, e[1], e[2])
               \/ DeleteTask(id) ) =>
              /\ NotFoundAnswer'
              /\ DOMAIN tasks' = DOMAIN tasks
              /\ \A i \in DOMAIN tasks :
                    UserFields(tasks'[i]) = UserFields(tasks[i])
      ]_vars

\* a request for an id that is not in the table was just refused, the table
\* holding a task
C10_Witness ==
    /\ NotFoundAnswer
    /\ DOMAIN tasks # {}

\* C11: a move_task, edit_task or delete_task that is rejected as not
\* editable leaves the task it names in the table, its column_index, title
\* and description as they were before the request.
C11_RejectedUnchanged ==
    [][\A id \in DOMAIN tasks :
          ( /\ NotEditableAnswer'
            /\ \/ \E col \in ColumnInputs : MoveTask(id, col)
               \/ \E e \in EditInputs : EditTask(id, e[1], e[2])
               \/ DeleteTask(id) ) =>
              /\ id \in DOMAIN tasks'
              /\ tasks'[id].column_index = tasks[id].column_index
              /\ tasks'[id].title = tasks[id].title
              /\ tasks'[id].description = tasks[id].description
      ]_vars

\* a request was just rejected on a task that is not archived and is dated
\* another day than today
C11_Witness ==
    /\ NotEditableAnswer
    /\ \E id \in DOMAIN tasks :
          tasks[id].task_date # today /\ ~tasks[id].archived

\* the number of columns of the board
N_columns == Len(board_columns(columns))

\* C12: a task that a step creates has its column_index in the range
\* 0 .. N_columns - 1.
C12_CreatedInRange ==
    [][\A id \in DOMAIN tasks' \ DOMAIN tasks :
          tasks'[id].column_index \in 0..(N_columns' - 1)]_vars

\* C18: in every reachable state every stored task has a non-empty title.
C18_TitleNonEmpty == \A id \in DOMAIN tasks : tasks[id].title # ""

\* C19: no step changes the title, description, column_index or task_date
\* of an archived task, or removes it from the table, whatever the clock
\* does.
C19_ArchivedImmutable ==
    [][\A id \in DOMAIN tasks :
          tasks[id].archived =>
              /\ id \in DOMAIN tasks'
              /\ tasks'[id].title = tasks[id].title
              /\ tasks'[id].description = tasks[id].description
              /\ tasks'[id].column_index = tasks[id].column_index
              /\ tasks'[id].task_date = tasks[id].task_date
      ]_vars

\* a delete was just rejected on an archived task dated today, the clock
\* having been set back to the task's day
C19_Witness ==
    /\ NotEditableAnswer
    /\ resp.catchup = "noop"
    /\ Watermark.ok
    /\ today < Watermark.value
    /\ \A id \in TaskIds :
          /\ id \in DOMAIN tasks
          /\ tasks[id].archived
          /\ tasks[id].task_date = today

\* C20: under a clock that never goes back, a task that is not editable
\* (archived, or dated another day than today) is not editable after any
\* later step.
C20_NotEditableForever ==
    [][\A id \in Kept :
          ~Editable(tasks[id], today) => ~Editable(tasks'[id], today')]_vars

\* a page was just served without any archiving, the table holding a task
\* of an earlier day that is not archived
C20_Witness ==
    /\ resp = [status |-> 200, error |-> "", catchup |-> "noop"]
    /\ \E id \in DOMAIN tasks :
          tasks[id].task_date < today /\ ~tasks[id].archived

\* C13: an archive page (by day, ISO week, month or year) lists only tasks
\* whose archived flag is true.
C13_OnlyArchivedListed ==
    \A id \in page.tasks : id \in DOMAIN tasks /\ tasks[id].archived

\* the tasks that a rollover at the current date is to archive
DueForArchive ==
    {id \in DOMAIN tasks :
        /\ ~tasks[id].archived
        /\ Watermark.value <= tasks[id].task_date
        /\ tasks[id].task_date < today}

\* C14: every request, of whatever route, runs the rollover to its end
\* before it reads, gates on or writes a task: when the date has advanced
\* past the watermark, the step that serves the request leaves the
\* watermark at today and the earlier days' tasks archived, a move, edit or
\* delete of such a task is refused, and an archive page for the task's
\* day, week, month or year lists it.
C14_CatchUpFirst ==
    [][(resp'.status # 0 /\ Watermark.ok /\ Watermark.value < today) =>
          /\ last_active_date' = isoformat(today)
          /\ \A id \in DueForArchive :
                LET date == tasks[id].task_date IN
                /\ id \in DOMAIN tasks'
                /\ tasks'[id].archived
                /\ UserFields(tasks'[id]) = UserFields(tasks[id])
                /\ ( \/ \E col \in ColumnInputs : MoveTask(id, col)
                     \/ \E e \in EditInputs : EditTask(id, e[1], e[2])
                     \/ DeleteTask(id) ) => NotEditableAnswer'
                /\ ArchiveIndex => date \in page'.dates
                /\ ArchiveDayPage(isoformat(date)) => id \in page'.tasks
                /\ ArchiveWeek(Seg(isocalendar(date)[1]), Seg(isocalendar(date)[2]))
                      => id \in page'.tasks
                /\ ArchiveMonth(Seg(ord2ymd(date)[1]), Seg(ord2ymd(date)[2]))
                      => id \in page'.tasks
                /\ ArchiveYear(Seg(ord2ymd(date)[1])) => id \in page'.tasks
      ]_vars

\* an archive page by week was just served that lists a task archived by
\* the rollover of the same request
C14_Witness ==
    /\ resp = [status |-> 200, error |-> "", catchup |-> "sweep"]
    /\ \E id \in page.tasks :
          /\ tasks[id].archived_at = today
          /\ isocalendar(tasks[id].task_date) # isocalendar(today)

\* the worker is inside the rollover's sweep: between the test of the
\* watermark and the write of the new one, where a kill interrupts it
MidSweep(w) == pc[w] \in {"select", "archive", "mark"}

\* the rollover run again at the same date on the store as it is now
RunAgain(w) == check_rollover_and_archive(tasks, last_active_date, loc[w].now)

\* the rollover run without interruption on the store it started from
RunWhole(w) ==
    check_rollover_and_archive(loc[w].start, isoformat(loc[w].last_date), loc[w].now)

\* C15: at every point where the rollover's sweep of [W, now) can be
\* interrupted, the stored watermark is still W, the tasks changed so far
\* are tasks dated in [W, now) that were open and are now archived, and a
\* rollover run again at now ends with the same archived set and watermark
\* as the uninterrupted run.
C15_CrashConsistent ==
    \A w \in Workers :
        MidSweep(w) =>
            /\ last_active_date = isoformat(loc[w].last_date)
            /\ DOMAIN tasks = DOMAIN loc[w].start
            /\ \A id \in DOMAIN tasks :
                  \/ tasks[id] = loc[w].start[id]
                  \/ /\ ~loc[w].start[id].archived
                     /\ loc[w].last_date <= tasks[id].task_date
                     /\ tasks[id].task_date < loc[w].now
                     /\ tasks[id].archived
                     /\ UserFields(tasks[id]) = UserFields(loc[w].start[id])
            /\ ArchivedSet(RunAgain(w).tasks) = ArchivedSet(RunWhole(w).tasks)
            /\ RunAgain(w).last = RunWhole(w).last

\* the process was killed after the sweep committed a day and before the
\* watermark was written: an archived task is dated at or after the
\* watermark, and the rollover has more to do
C15_Witness ==
    /\ Idle
    /\ resp = NoResponse
    /\ Watermark.ok
    /\ Watermark.value < today
    /\ \E id \in DOMAIN tasks :
          tasks[id].archived /\ Watermark.value <= tasks[id].task_date

\* C16: when two requests are served at the same time, no move commits a
\* change to a task that is archived by then, and no rollover writes the
\* archiving of a task that is archived already.
C16_Serialized ==
    [][\A w \in Workers :
          /\ Write(w) => ~tasks[loc[w].id].archived
          /\ Archive(w) => \A id \in loc[w].sel : ~tasks[id].archived
      ]_vars

\* the days from a up to b, b excluded, in order
DaysFrom(a, b) == [i \in 1..(b - a) |-> a + i - 1]

\* what holds of the rollover when its loop is left and when it returns
SweepDone(w) ==
    /\ pc[w] = "mark" => loc[w].visited = DaysFrom(loc[w].last_date, loc[w].now)
    /\ (pc[w] = "handler" /\ loc[w].branch = "sweep") =>
           /\ loc[w].visited = DaysFrom(loc[w].last_date, loc[w].now)
           /\ last_active_date = isoformat(loc[w].now)
    /\ (pc[w] = "handler" /\ loc[w].branch = "init") =>
           /\ last_active_date = isoformat(loc[w].now)
           /\ tasks = loc[w].start

=============================================================================
